---- MODULE Spec2Model ----
(***************************************************************************)
(* The plan application pipeline of the leader server                      *)
(* (src/nomad/plan_apply.go): the planApply loop, evaluatePlan and         *)
(* applyPlan, together with the collaborators they call (plan queue,       *)
(* state store snapshot, fit predicate, raftApply).                        *)
(***************************************************************************)
EXTENDS Integers, Sequences, FiniteSets, TLC

(***************************************************************************)
(* Bounds of the model.                                                    *)
(***************************************************************************)
\* plans admitted by Enqueue in one behaviour
MaxPlans == 2
\* writes to the "nodes" table by other raft clients in one behaviour
MaxNodeUpdates == 1
\* largest table index of a snapshot drawn as an input of evaluatePlan
MaxIndex == 2
\* longest placement list of a plan drawn as an input of evaluatePlan
MaxList == 2
\* longest eviction list of a plan drawn as an input of evaluatePlan
MaxEvict == 1

(***************************************************************************)
(* The cluster: two nodes and the allocations the schedulers place.        *)
(***************************************************************************)
Nodes == {"A", "B"}
Capacity == [n \in Nodes |-> IF n = "A" THEN 3 ELSE 2]
AllocIDSeq == <<"a1", "a2">>
AllocIDs == {AllocIDSeq[i] : i \in 1..Len(AllocIDSeq)}
AllocSize == [id \in AllocIDs |-> IF id = "a1" THEN 1 ELSE 2]
NoNode == "none"

\* nil / non-nil pointers: <<>> is nil, <<v>> points to v
Nil == << >>
Ptr(v) == <<v>>
Deref(p) == p[1]

\* a Go map: a function whose domain is the set of keys; reading a missing
\* key yields the zero value (a nil slice)
EmptyMap == << >>
MapGet(m, k) == IF k \in DOMAIN m THEN m[k] ELSE << >>
MapPut(m, k, v) == [x \in (DOMAIN m) \cup {k} |-> IF x = k THEN v ELSE m[x]]

\* error values
NoErr == "nil"

Allocation(id, n) == [ID |-> id, NodeID |-> n]

RECURSIVE SumSize(_)
SumSize(allocs) ==
    IF allocs = << >> THEN 0
    ELSE AllocSize[Head(allocs).ID] + SumSize(Tail(allocs))

\* AllocationsFit(node, proposed): the aggregate demand fits the capacity
AllocationsFit(node, proposed) == SumSize(proposed) <= node.Capacity

\* structs.RemoveAllocs: drop the allocations whose ID is in remove
RemoveAllocs(alloc, remove) ==
    SelectSeq(alloc, LAMBDA a : \A i \in 1..Len(remove) : remove[i] # a.ID)

maxUint64(a, b) == IF a >= b THEN a ELSE b

(***************************************************************************)
(* The state store.  A snapshot is a copy of it:                           *)
(*   nodes  - the registered nodes                                         *)
(*   allocs - for each allocation ID the node it is on, or NoNode          *)
(*   index  - last-modified raft index of the tables "nodes" and "allocs"  *)
(***************************************************************************)
Tables == {"nodes", "allocs"}

GetNodeByID(snap, nodeID) ==
    IF nodeID \in snap.nodes
    THEN [err |-> NoErr, node |-> [ID |-> nodeID, Capacity |-> Capacity[nodeID]]]
    ELSE [err |-> "NodeLookupFailed", node |-> [ID |-> nodeID, Capacity |-> 0]]

AllocsByNode(snap, nodeID) ==
    LET ids == SelectSeq(AllocIDSeq, LAMBDA id : snap.allocs[id] = nodeID)
    IN [i \in 1..Len(ids) |-> Allocation(ids[i], nodeID)]

\* an index entry that was never written reads as 0
GetIndex(snap, table) == IF table \in Tables THEN snap.index[table] ELSE 0

(***************************************************************************)
(* evaluatePlan                                                            *)
(***************************************************************************)
EmptyResult ==
    [NodeEvict |-> EmptyMap, NodeAllocation |-> EmptyMap,
     RefreshIndex |-> 0, AllocIndex |-> 0]

\* mutants of Proposed: the existing allocations are forgotten; the planned
\* evictions are not removed
ProposedOnlyNew(existingAlloc, evictions, allocList) == allocList
ProposedKeepEvicted(existingAlloc, evictions, allocList) == existingAlloc \o allocList

\* lines 79-84: existing minus the planned evictions, then the new ones
Proposed(existingAlloc, evictions, allocList) ==
    (IF Len(evictions) > 0 THEN RemoveAllocs(existingAlloc, evictions)
                           ELSE existingAlloc) \o allocList

\* lines 90-98: the index handed back when a node does not fit
RefreshIndexOf(snap) ==
    maxUint64(GetIndex(snap, "node"), GetIndex(snap, "allocs"))

\* lines 100-104: an all-at-once plan stops at the first node that fails
AllAtOnceResult(result) == result

\* mutants of AddToResult: only the first placement of the node is recorded;
\* the evictions of the node are not recorded
AddToResultFirstOnly(result, nodeID, evictions, allocList) ==
    LET r1 == IF Len(evictions) > 0
              THEN [result EXCEPT !.NodeEvict = MapPut(@, nodeID, evictions)]
              ELSE result
    IN IF Len(allocList) > 0
       THEN [r1 EXCEPT !.NodeAllocation = MapPut(@, nodeID, SubSeq(allocList, 1, 1))]
       ELSE r1
AddToResultNoEvict(result, nodeID, evictions, allocList) ==
    IF Len(allocList) > 0
    THEN [result EXCEPT !.NodeAllocation = MapPut(@, nodeID, allocList)]
    ELSE result

\* mutant of AddToResult: accepting a node starts from a fresh RefreshIndex
AddToResultResetsRefresh(result, nodeID, evictions, allocList) ==
    LET r0 == [result EXCEPT !.RefreshIndex = 0]
        r1 == IF Len(evictions) > 0
              THEN [r0 EXCEPT !.NodeEvict = MapPut(@, nodeID, evictions)]
              ELSE r0
    IN IF Len(allocList) > 0
       THEN [r1 EXCEPT !.NodeAllocation = MapPut(@, nodeID, allocList)]
       ELSE r1

\* mutant of AddToResult: the test of line 114 is missing, an empty placement
\* list is recorded too
AddToResultAlways(result, nodeID, evictions, allocList) ==
    LET r1 == IF Len(evictions) > 0
              THEN [result EXCEPT !.NodeEvict = MapPut(@, nodeID, evictions)]
              ELSE result
    IN [r1 EXCEPT !.NodeAllocation = MapPut(@, nodeID, allocList)]

\* lines 110-116: add the node to the plan result
AddToResult(result, nodeID, evictions, allocList) ==
    LET r1 == IF Len(evictions) > 0
              THEN [result EXCEPT !.NodeEvict = MapPut(@, nodeID, evictions)]
              ELSE result
    IN IF Len(allocList) > 0
       THEN [r1 EXCEPT !.NodeAllocation = MapPut(@, nodeID, allocList)]
       ELSE r1

Failed(e) == [err |-> e, result |-> Nil, calls |-> << >>]

\* mutant of evalNodes: a node that is not in the snapshot is skipped, where
\* lines 67-69 return the error
RECURSIVE evalNodesSkipMissing(_, _, _, _, _, _)
evalNodesSkipMissing(plan, snap, fail, order, result, calls) ==
    IF order = << >> THEN [err |-> NoErr, result |-> Ptr(result), calls |-> calls]
    ELSE
    LET nodeID == Head(order)
        allocList == plan.NodeAllocation[nodeID]
        got == GetNodeByID(snap, nodeID)
        existingAlloc == AllocsByNode(snap, nodeID)
        evictions == MapGet(plan.NodeEvict, nodeID)
        proposed == Proposed(existingAlloc, evictions, allocList)
        called == Append(calls, [node |-> got.node, proposed |-> proposed])
        refreshed == [result EXCEPT !.RefreshIndex = RefreshIndexOf(snap)]
    IN  IF got.err # NoErr
        THEN evalNodesSkipMissing(plan, snap, fail, Tail(order), result, calls)
        ELSE IF fail = "AllocsByNode" THEN Failed("AllocLookupFailed")
        ELSE IF ~AllocationsFit(got.node, proposed)
             THEN IF fail = "GetIndex" THEN Failed("IndexLookupFailed")
                  ELSE IF plan.AllAtOnce
                       THEN [err |-> NoErr, result |-> Ptr(AllAtOnceResult(refreshed)),
                             calls |-> called]
                       ELSE evalNodesSkipMissing(plan, snap, fail, Tail(order), refreshed, called)
             ELSE evalNodesSkipMissing(plan, snap, fail, Tail(order),
                            AddToResult(result, nodeID, evictions, allocList), called)

\* mutant of evalNodes: the evictions of a node are recorded before the fit
\* is tested, so those of a node that fails stay in the result
RECURSIVE evalNodesKeepEvict(_, _, _, _, _, _)
evalNodesKeepEvict(plan, snap, fail, order, result, calls) ==
    IF order = << >> THEN [err |-> NoErr, result |-> Ptr(result), calls |-> calls]
    ELSE
    LET nodeID == Head(order)
        allocList == plan.NodeAllocation[nodeID]
        got == GetNodeByID(snap, nodeID)
        existingAlloc == AllocsByNode(snap, nodeID)
        evictions == MapGet(plan.NodeEvict, nodeID)
        proposed == Proposed(existingAlloc, evictions, allocList)
        called == Append(calls, [node |-> got.node, proposed |-> proposed])
        refreshed == [result EXCEPT !.RefreshIndex = RefreshIndexOf(snap),
                                    !.NodeEvict = IF Len(evictions) > 0
                                                  THEN MapPut(@, nodeID, evictions)
                                                  ELSE @]
    IN  IF got.err # NoErr THEN Failed(got.err)
        ELSE IF fail = "AllocsByNode" THEN Failed("AllocLookupFailed")
        ELSE IF ~AllocationsFit(got.node, proposed)
             THEN IF fail = "GetIndex" THEN Failed("IndexLookupFailed")
                  ELSE IF plan.AllAtOnce
                       THEN [err |-> NoErr, result |-> Ptr(AllAtOnceResult(refreshed)),
                             calls |-> called]
                       ELSE evalNodesKeepEvict(plan, snap, fail, Tail(order), refreshed, called)
             ELSE evalNodesKeepEvict(plan, snap, fail, Tail(order),
                            AddToResult(result, nodeID, evictions, allocList), called)

\* lines 64-118: the range loop over plan.NodeAllocation, visiting the keys
\* in the order given (Go leaves the order of a map range unspecified);
\* fail names the snapshot read that fails when called, if any; calls lists
\* the arguments of the calls of AllocationsFit made so far
RECURSIVE evalNodes(_, _, _, _, _, _)
evalNodes(plan, snap, fail, order, result, calls) ==
    IF order = << >> THEN [err |-> NoErr, result |-> Ptr(result), calls |-> calls]
    ELSE
    LET nodeID == Head(order)
        allocList == plan.NodeAllocation[nodeID]
        got == GetNodeByID(snap, nodeID)
        existingAlloc == AllocsByNode(snap, nodeID)
        evictions == MapGet(plan.NodeEvict, nodeID)
        proposed == Proposed(existingAlloc, evictions, allocList)
        called == Append(calls, [node |-> got.node, proposed |-> proposed])
        refreshed == [result EXCEPT !.RefreshIndex = RefreshIndexOf(snap)]
    IN  IF got.err # NoErr THEN Failed(got.err)
        ELSE IF fail = "AllocsByNode" THEN Failed("AllocLookupFailed")
        ELSE IF ~AllocationsFit(got.node, proposed)
             THEN IF fail = "GetIndex" THEN Failed("IndexLookupFailed")
                  ELSE IF plan.AllAtOnce
                       THEN [err |-> NoErr, result |-> Ptr(AllAtOnceResult(refreshed)),
                             calls |-> called]
                       ELSE evalNodes(plan, snap, fail, Tail(order), refreshed, called)
             ELSE evalNodes(plan, snap, fail, Tail(order),
                            AddToResult(result, nodeID, evictions, allocList), called)

\* lines 49-119
evaluatePlan(plan, snap, fail, order) ==
    IF fail = "Snapshot" THEN Failed("SnapshotFailed")
    ELSE evalNodes(plan, snap, fail, order, EmptyResult, << >>)

\* mutant of Flatten: each list is assigned to the request where lines 125
\* and 128 append it, so only the list visited last is left
FlattenAssign(m, order) ==
    IF order = << >> THEN << >>
    ELSE m[order[Len(order)]]

\* lines 122-130: the flat request; each range visits the keys of its map in
\* an unspecified order, here evictOrder and allocOrder
RECURSIVE Flatten(_, _)
Flatten(m, order) ==
    IF order = << >> THEN << >>
    ELSE m[Head(order)] \o Flatten(m, Tail(order))

applyPlanRequest(result, evictOrder, allocOrder) ==
    [Evict |-> Flatten(result.NodeEvict, evictOrder),
     Alloc |-> Flatten(result.NodeAllocation, allocOrder)]

\* line 31
IsEmptyResult(result) ==
    DOMAIN result.NodeEvict = {} /\ DOMAIN result.NodeAllocation = {}

\* mutant of WithAllocIndex: the index raftApply returned is dropped
WithoutAllocIndex(result, allocIndex) == result

\* line 38
WithAllocIndex(result, allocIndex) == [result EXCEPT !.AllocIndex = allocIndex]

\* the orders in which a range over map m may visit its keys
Perms(S) ==
    {o \in [1..Cardinality(S) -> S] : \A i, j \in 1..Cardinality(S) : i # j => o[i] # o[j]}
KeyOrders(m) == Perms(DOMAIN m)

(***************************************************************************)
(* The state machine applying an AllocUpdateRequest: the evicted           *)
(* allocations are deleted, then the new ones are upserted by ID.          *)
(***************************************************************************)
RECURSIVE Upsert(_, _)
Upsert(allocs, list) ==
    IF list = << >> THEN allocs
    ELSE Upsert([allocs EXCEPT ![Head(list).ID] = Head(list).NodeID], Tail(list))

FsmApply(store, req, index) ==
    LET deleted == [id \in AllocIDs |->
                      IF \E i \in 1..Len(req.Evict) : req.Evict[i] = id
                      THEN NoNode ELSE store.allocs[id]]
    IN [store EXCEPT !.allocs = Upsert(deleted, req.Alloc),
                     !.index = [@ EXCEPT !["allocs"] = index]]

\* the demand committed on node n in a state store
Load(store, n) == SumSize(AllocsByNode(store, n))
Fits(store) == \A n \in Nodes : Load(store, n) <= Capacity[n]

(***************************************************************************)
(* Inputs: the plans a scheduler may build.                                *)
(***************************************************************************)
IsInjective(s) == \A i, j \in 1..Len(s) : i # j => s[i] # s[j]
IDLists(maxLen) ==
    {s \in UNION {[1..k -> AllocIDs] : k \in 0..maxLen} : IsInjective(s)}

NodeAllocationMaps ==
    UNION {{[n \in S |-> [i \in 1..Len(f[n]) |-> Allocation(f[n][i], n)]] :
              f \in [S -> IDLists(MaxList)]} : S \in SUBSET Nodes}
NodeEvictMaps ==
    UNION {[S -> IDLists(MaxEvict) \ {<< >>}] : S \in SUBSET Nodes}

Plans ==
    [NodeAllocation : NodeAllocationMaps, NodeEvict : NodeEvictMaps,
     AllAtOnce : BOOLEAN]

\* the snapshot reads that may fail during one evaluation
Fails == {"none", "Snapshot", "AllocsByNode", "GetIndex"}

\* the state stores a snapshot may be taken of, those in which a node holds
\* more than its capacity included: the tables were written at distinct raft
\* indices, the nodes were registered, and allocations exist only once
\* "allocs" was written
Stores ==
    {s \in [nodes : (SUBSET Nodes) \ {{}},
            allocs : [AllocIDs -> Nodes \cup {NoNode}],
            index : [Tables -> 0..MaxIndex]] :
        /\ s.index["nodes"] > 0
        /\ s.index["nodes"] # s.index["allocs"]
        /\ (s.index["allocs"] = 0 => \A id \in AllocIDs : s.allocs[id] = NoNode)}

\* the plans submitted to the running loop
Place(n, ids) == [i \in 1..Len(ids) |-> Allocation(ids[i], n)]
MkPlan(na, ne, aao) == [NodeAllocation |-> na, NodeEvict |-> ne, AllAtOnce |-> aao]
LoopPlans ==
    { MkPlan([n \in {"B"} |-> Place("B", <<"a1">>)], EmptyMap, FALSE),
      MkPlan([n \in {"B"} |-> Place("B", <<"a2">>)], EmptyMap, FALSE),
      MkPlan([n \in {"B"} |-> Place("B", <<"a2">>)],
             [n \in {"B"} |-> <<"a1">>], FALSE),
      MkPlan([n \in Nodes |-> Place(n, IF n = "A" THEN <<"a1">> ELSE <<"a2">>)],
             EmptyMap, FALSE),
      MkPlan([n \in Nodes |-> Place(n, IF n = "A" THEN <<"a1">> ELSE <<"a2">>)],
             EmptyMap, TRUE),
      MkPlan([n \in {"A"} |-> Place("A", <<"a2", "a1">>)],
             [n \in {"B"} |-> <<"a1">>], FALSE),
      MkPlan([n \in {"A"} |-> Place("A", << >>)], EmptyMap, TRUE) }

(***************************************************************************)
(* State.                                                                  *)
(***************************************************************************)
VARIABLES
    fsm,          \* the replicated state store (nodes, allocs, index)
    raftIndex,    \* index of the last raft log entry
    nodeUpdates,  \* writes to the "nodes" table made so far by other clients
    queue,        \* the plan queue: pending plans [id, plan], oldest first
    closed,       \* the queue was closed
    enqueued,     \* number of plans admitted so far; the next one gets id enqueued + 1
    pc,           \* where planApply is: "idle", "evaluating", "applying", "stopped"
    pending,      \* planApply's pending plan, Nil outside an iteration
    result,       \* planApply's result, Nil until evaluatePlan returned one
    replies,      \* for each plan id, the replies written to its pending, in order
    initFsm,      \* history: the state store when the server became leader
    ev,           \* history: the last call of evaluatePlan, Nil if none
    deqOrder,     \* history: ids of the plans Dequeue handed to planApply, in order
    evalOrder,    \* history: ids of the plans handed to evaluatePlan, in order
    applyOrder,   \* history: ids of the plans handed to raftApply, in order
    replyOrder,   \* history: ids of the plans planApply replied to, in order
    appliedLog    \* history: the requests raftApply committed, in order

vars == <<fsm, raftIndex, nodeUpdates, queue, closed, enqueued, pc, pending, result,
          replies, initFsm, ev, deqOrder, evalOrder, applyOrder, replyOrder, appliedLog>>

PlanIDs == 1..MaxPlans

Reply(res, err) == [result |-> res, err |-> err]

\* pending.respond(result, err)
respond(reps, id, res, err) == [reps EXCEPT ![id] = Append(@, Reply(res, err))]

\* the plan queue completes every plan still enqueued with QueueClosed
RECURSIVE respondAll(_, _)
respondAll(reps, q) ==
    IF q = << >> THEN reps
    ELSE respondAll(respond(reps, Head(q).id, Nil, "QueueClosed"), Tail(q))

\* the state store of a leader that has registered its nodes and committed
\* nothing yet, or that took over with a1 on node B
InitStores ==
    {s \in Stores :
        /\ s.nodes = Nodes
        /\ s.index["nodes"] = 1
        /\ s.index["allocs"] \in {0, 2}
        /\ s.allocs["a2"] = NoNode
        /\ s.allocs["a1"] \in {NoNode, "B"}}

InitHistory ==
    /\ ev = Nil
    /\ deqOrder = << >>
    /\ evalOrder = << >>
    /\ applyOrder = << >>
    /\ replyOrder = << >>
    /\ appliedLog = << >>

Init ==
    /\ fsm \in InitStores
    /\ initFsm = fsm
    /\ raftIndex = maxUint64(fsm.index["nodes"], fsm.index["allocs"])
    /\ nodeUpdates = 0
    /\ queue = << >>
    /\ closed = FALSE
    /\ enqueued = 0
    /\ pc = "idle"
    /\ pending = Nil
    /\ result = Nil
    /\ replies = [id \in PlanIDs |-> << >>]
    /\ InitHistory

(***************************************************************************)
(* The plan queue and the other writers of the replicated log.             *)
(***************************************************************************)
histVars == <<initFsm, ev, deqOrder, evalOrder, applyOrder, replyOrder, appliedLog>>
loopVars == <<pc, pending, result>>
raftVars == <<fsm, raftIndex, nodeUpdates>>

\* PlanQueue.Enqueue(plan) by a scheduler
Enqueue(plan) ==
    /\ ~closed
    /\ enqueued < MaxPlans
    /\ enqueued' = enqueued + 1
    /\ queue' = Append(queue, [id |-> enqueued + 1, plan |-> plan])
    /\ UNCHANGED <<closed, replies, loopVars, raftVars, histVars>>

\* PlanQueue.Close()
Close ==
    /\ ~closed
    /\ closed' = TRUE
    /\ replies' = respondAll(replies, queue)
    /\ queue' = << >>
    /\ UNCHANGED <<enqueued, loopVars, raftVars, histVars>>

\* PlanQueue.Flush()
Flush ==
    /\ queue # << >>
    /\ replies' = respondAll(replies, queue)
    /\ queue' = << >>
    /\ UNCHANGED <<closed, enqueued, loopVars, raftVars, histVars>>

\* another raft client writes the "nodes" table (a node heartbeat, a status
\* update); node capacities stay as they are
NodeUpdate ==
    /\ nodeUpdates < MaxNodeUpdates
    /\ nodeUpdates' = nodeUpdates + 1
    /\ raftIndex' = raftIndex + 1
    /\ fsm' = [fsm EXCEPT !.index = [@ EXCEPT !["nodes"] = raftIndex + 1]]
    /\ UNCHANGED <<queue, closed, enqueued, replies, loopVars, histVars>>

(***************************************************************************)
(* planApply, one action per step between two points where it blocks.      *)
(***************************************************************************)
\* line 17, Dequeue returns the oldest pending plan
Dequeue ==
    /\ pc = "idle"
    /\ queue # << >>
    /\ pending' = Ptr(Head(queue))
    /\ queue' = Tail(queue)
    /\ pc' = "evaluating"
    /\ deqOrder' = Append(deqOrder, Head(queue).id)
    /\ UNCHANGED <<closed, enqueued, replies, result, raftVars,
                   initFsm, ev, evalOrder, applyOrder, replyOrder, appliedLog>>

\* lines 17-20, Dequeue fails on a closed queue and planApply returns
DequeueClosed ==
    /\ pc = "idle"
    /\ closed
    /\ pc' = "stopped"
    /\ UNCHANGED <<queue, closed, enqueued, replies, pending, result, raftVars, histVars>>

\* mutant of StateSnapshot: the snapshot is taken once, before the loop
StaleSnapshot == initFsm

\* line 52
StateSnapshot == fsm

\* one call of evaluatePlan: its inputs, the number of requests committed
\* before it, and what it returned
Evaluation(plan, snap, fail, order) ==
    [plan |-> plan, snap |-> snap, fail |-> fail, order |-> order,
     applied |-> Len(appliedLog),
     out |-> evaluatePlan(plan, snap, fail, order)]

\* the inputs planApply does not choose: the read that fails, if any, and
\* the order in which the range visits plan.NodeAllocation
EvalInputs == Fails \X KeyOrders(Deref(pending).plan.NodeAllocation)

\* mutant of EvalError: the plan goes back into the queue to be tried again
EvalErrorRetry ==
    /\ pc = "evaluating"
    /\ \E inp \in EvalInputs :
        LET p == Deref(pending)
            e == Evaluation(p.plan, StateSnapshot, inp[1], inp[2])
        IN
        /\ e.out.err # NoErr
        /\ ev' = Ptr(e)
        /\ evalOrder' = Append(evalOrder, p.id)
        /\ queue' = Append(queue, p)
        /\ pc' = "idle"
        /\ pending' = Nil
        /\ result' = Nil
        /\ UNCHANGED <<closed, enqueued, replies, raftVars, initFsm, deqOrder,
                       applyOrder, replyOrder, appliedLog>>

\* mutant of EvalError: a return in place of the continue of line 27, so the
\* loop ends with the plan that failed
EvalErrorReturns ==
    /\ pc = "evaluating"
    /\ \E inp \in EvalInputs :
        LET p == Deref(pending)
            e == Evaluation(p.plan, StateSnapshot, inp[1], inp[2])
        IN
        /\ e.out.err # NoErr
        /\ ev' = Ptr(e)
        /\ evalOrder' = Append(evalOrder, p.id)
        /\ replies' = respond(replies, p.id, Nil, e.out.err)
        /\ replyOrder' = Append(replyOrder, p.id)
        /\ pc' = "stopped"
        /\ pending' = Nil
        /\ result' = Nil
        /\ UNCHANGED <<queue, closed, enqueued, raftVars, initFsm, deqOrder, applyOrder, appliedLog>>

\* lines 23-28: evaluatePlan fails, the submitter gets the error
EvalError ==
    /\ pc = "evaluating"
    /\ \E inp \in EvalInputs :
        LET p == Deref(pending)
            e == Evaluation(p.plan, StateSnapshot, inp[1], inp[2])
        IN
        /\ e.out.err # NoErr
        /\ ev' = Ptr(e)
        /\ evalOrder' = Append(evalOrder, p.id)
        /\ replies' = respond(replies, p.id, Nil, e.out.err)
        /\ replyOrder' = Append(replyOrder, p.id)
        /\ pc' = "idle"
        /\ pending' = Nil
        /\ result' = Nil
        /\ UNCHANGED <<queue, closed, enqueued, raftVars, initFsm, deqOrder, applyOrder, appliedLog>>

\* mutant of EvalEmpty: the test of line 31 is missing, so applyPlan is called
\* on the empty result too
EvalEmptyApplies ==
    /\ pc = "evaluating"
    /\ \E inp \in EvalInputs :
        LET p == Deref(pending)
            e == Evaluation(p.plan, StateSnapshot, inp[1], inp[2])
            req == applyPlanRequest(Deref(e.out.result), << >>, << >>)
            index == raftIndex + 1
        IN
        /\ e.out.err = NoErr
        /\ IsEmptyResult(Deref(e.out.result))
        /\ ev' = Ptr(e)
        /\ evalOrder' = Append(evalOrder, p.id)
        /\ raftIndex' = index
        /\ fsm' = FsmApply(fsm, req, index)
        /\ applyOrder' = Append(applyOrder, p.id)
        /\ appliedLog' = Append(appliedLog, req)
        /\ replies' = respond(replies, p.id,
                              Ptr(WithAllocIndex(Deref(e.out.result), index)), NoErr)
        /\ replyOrder' = Append(replyOrder, p.id)
        /\ pc' = "idle"
        /\ pending' = Nil
        /\ result' = Nil
        /\ UNCHANGED <<queue, closed, enqueued, nodeUpdates, initFsm, deqOrder>>

\* lines 23-31 and 42: nothing was accepted, the result is the reply
EvalEmpty ==
    /\ pc = "evaluating"
    /\ \E inp \in EvalInputs :
        LET p == Deref(pending)
            e == Evaluation(p.plan, StateSnapshot, inp[1], inp[2])
        IN
        /\ e.out.err = NoErr
        /\ IsEmptyResult(Deref(e.out.result))
        /\ ev' = Ptr(e)
        /\ evalOrder' = Append(evalOrder, p.id)
        /\ replies' = respond(replies, p.id, e.out.result, NoErr)
        /\ replyOrder' = Append(replyOrder, p.id)
        /\ pc' = "idle"
        /\ pending' = Nil
        /\ result' = Nil
        /\ UNCHANGED <<queue, closed, enqueued, raftVars, initFsm, deqOrder, applyOrder, appliedLog>>

\* lines 23-32: something was accepted, planApply goes on to applyPlan
EvalAccept ==
    /\ pc = "evaluating"
    /\ \E inp \in EvalInputs :
        LET p == Deref(pending)
            e == Evaluation(p.plan, StateSnapshot, inp[1], inp[2])
        IN
        /\ e.out.err = NoErr
        /\ ~IsEmptyResult(Deref(e.out.result))
        /\ ev' = Ptr(e)
        /\ evalOrder' = Append(evalOrder, p.id)
        /\ result' = e.out.result
        /\ pc' = "applying"
        /\ UNCHANGED <<queue, closed, enqueued, replies, pending, raftVars,
                       initFsm, deqOrder, applyOrder, replyOrder, appliedLog>>

\* the orders in which applyPlan's two ranges visit the result's maps
ApplyInputs ==
    KeyOrders(Deref(result).NodeEvict) \X KeyOrders(Deref(result).NodeAllocation)

\* lines 32-42 and 122-134: raftApply commits the request at the next index
ApplyOk ==
    /\ pc = "applying"
    /\ \E inp \in ApplyInputs :
        LET p == Deref(pending)
            req == applyPlanRequest(Deref(result), inp[1], inp[2])
            index == raftIndex + 1
        IN
        /\ raftIndex' = index
        /\ fsm' = FsmApply(fsm, req, index)
        /\ applyOrder' = Append(applyOrder, p.id)
        /\ appliedLog' = Append(appliedLog, req)
        /\ replies' = respond(replies, p.id, Ptr(WithAllocIndex(Deref(result), index)), NoErr)
        /\ replyOrder' = Append(replyOrder, p.id)
        /\ pc' = "idle"
        /\ pending' = Nil
        /\ result' = Nil
        /\ UNCHANGED <<queue, closed, enqueued, nodeUpdates, initFsm, ev, deqOrder, evalOrder>>

\* mutant of ApplyFail: the continue of line 36 is missing, so line 42
\* responds a second time
ApplyFailNoContinue ==
    /\ pc = "applying"
    /\ LET p == Deref(pending)
       IN
        /\ applyOrder' = Append(applyOrder, p.id)
        /\ replies' = respond(respond(replies, p.id, Nil, "ConsensusFailed"),
                              p.id, result, NoErr)
        /\ replyOrder' = Append(replyOrder, p.id)
        /\ pc' = "idle"
        /\ pending' = Nil
        /\ result' = Nil
        /\ UNCHANGED <<queue, closed, enqueued, raftVars, initFsm, ev, deqOrder, evalOrder, appliedLog>>

\* mutant of ApplyFail: the respond of line 35 is missing, the loop goes on
\* and the submitter is left waiting
ApplyFailNoRespond ==
    /\ pc = "applying"
    /\ LET p == Deref(pending)
       IN
        /\ applyOrder' = Append(applyOrder, p.id)
        /\ pc' = "idle"
        /\ pending' = Nil
        /\ result' = Nil
        /\ UNCHANGED <<queue, closed, enqueued, replies, raftVars, initFsm, ev, deqOrder,
                       evalOrder, replyOrder, appliedLog>>

\* mutant of ApplyFail: a return in place of the continue of line 36
ApplyFailReturns ==
    /\ pc = "applying"
    /\ LET p == Deref(pending)
       IN
        /\ applyOrder' = Append(applyOrder, p.id)
        /\ replies' = respond(replies, p.id, Nil, "ConsensusFailed")
        /\ replyOrder' = Append(replyOrder, p.id)
        /\ pc' = "stopped"
        /\ pending' = Nil
        /\ result' = Nil
        /\ UNCHANGED <<queue, closed, enqueued, raftVars, initFsm, ev, deqOrder, evalOrder, appliedLog>>

\* lines 32-37: raftApply fails, nothing is committed
ApplyFail ==
    /\ pc = "applying"
    /\ LET p == Deref(pending)
       IN
        /\ applyOrder' = Append(applyOrder, p.id)
        /\ replies' = respond(replies, p.id, Nil, "ConsensusFailed")
        /\ replyOrder' = Append(replyOrder, p.id)
        /\ pc' = "idle"
        /\ pending' = Nil
        /\ result' = Nil
        /\ UNCHANGED <<queue, closed, enqueued, raftVars, initFsm, ev, deqOrder, evalOrder, appliedLog>>

Next ==
    \/ \E plan \in LoopPlans : Enqueue(plan)
    \/ Close
    \/ Flush
    \/ NodeUpdate
    \/ Dequeue
    \/ DequeueClosed
    \/ EvalError
    \/ EvalEmpty
    \/ EvalAccept
    \/ ApplyOk
    \/ ApplyFail

Spec == Init /\ [][Next]_vars

(***************************************************************************)
(* evaluatePlan on its own: one call on any plan, against a snapshot of    *)
(* any state store, with any visiting order and any failing read.          *)
(***************************************************************************)
InitEval ==
    /\ fsm \in Stores
    /\ initFsm = fsm
    /\ raftIndex = maxUint64(fsm.index["nodes"], fsm.index["allocs"])
    /\ nodeUpdates = 0
    /\ queue = << >>
    /\ closed = FALSE
    /\ enqueued = 1
    /\ pc = "evaluating"
    /\ pending \in {Ptr([id |-> 1, plan |-> plan]) : plan \in Plans}
    /\ result = Nil
    /\ replies = [id \in PlanIDs |-> << >>]
    /\ ev = Nil
    /\ deqOrder = <<1>>
    /\ evalOrder = << >>
    /\ applyOrder = << >>
    /\ replyOrder = << >>
    /\ appliedLog = << >>

NextEval == EvalError \/ EvalEmpty \/ EvalAccept

SpecEval == InitEval /\ [][NextEval]_vars

(***************************************************************************)
(* Vocabulary of the properties.                                           *)
(***************************************************************************)
Range(seq) == {seq[i] : i \in 1..Len(seq)}

\* the last call of evaluatePlan returned a result and no error
EvOk == ev # Nil /\ Deref(ev).out.err = NoErr
EvPlan == Deref(ev).plan
EvSnap == Deref(ev).snap
EvRes == Deref(Deref(ev).out.result)
EvKeys == DOMAIN EvPlan.NodeAllocation

\* the demand on node n of the allocations the snapshot has there, those
\* with an ID in skip left out
ExistingDemand(snap, n, skip) ==
    SumSize(SelectSeq([i \in 1..Len(AllocIDSeq) |-> Allocation(AllocIDSeq[i], n)],
                      LAMBDA a : snap.allocs[a.ID] = n /\ a.ID \notin skip))

\* node n of the plan passes the fit predicate against the snapshot
NodeFits(plan, snap, n) ==
    ExistingDemand(snap, n, Range(MapGet(plan.NodeEvict, n)))
        + SumSize(plan.NodeAllocation[n]) <= Capacity[n]

\* the plan has placements on n, they fit, and would not if its evictions
\* were kept
FitsOnlyAfterEvict(plan, snap, n) ==
    /\ plan.NodeAllocation[n] # << >>
    /\ NodeFits(plan, snap, n)
    /\ ExistingDemand(snap, n, {}) + SumSize(plan.NodeAllocation[n]) > Capacity[n]

EvAllFit == \A n \in EvKeys : NodeFits(EvPlan, EvSnap, n)

\* the range reached node n: no all-at-once return happened before it
EvVisited(n) ==
    LET order == Deref(ev).order
    IN ~(/\ EvPlan.AllAtOnce
         /\ \E i, j \in 1..Len(order) :
              i < j /\ order[j] = n /\ ~NodeFits(EvPlan, EvSnap, order[i]))

(***************************************************************************)
(* C1: an all-at-once plan of which at least one node fails the fit        *)
(* predicate is rejected whole: the result of evaluatePlan has an empty    *)
(* NodeEvict and an empty NodeAllocation, whatever the order in which the  *)
(* nodes are visited.                                                      *)
(***************************************************************************)
C1_AllAtOnceRejectsWhole ==
    (EvOk /\ EvPlan.AllAtOnce /\ ~EvAllFit) => IsEmptyResult(EvRes)

(***************************************************************************)
(* C2: no over-commitment: in every reachable state the allocations        *)
(* committed on each node fit the capacity of the node.                    *)
(***************************************************************************)
C2_NoOverCommit == Fits(fsm)

\* a plan was committed on a node, and a later plan built from a stale view
\* was found not to fit on that node and left it as it was
C2_Witness ==
    /\ EvOk /\ Deref(ev).applied >= 1
    /\ pc = "idle"
    /\ \E n \in EvKeys :
         /\ ~NodeFits(EvPlan, EvSnap, n)
         /\ Load(initFsm, n) = 0
         /\ Load(fsm, n) > 0
         /\ Load(fsm, n) + SumSize(EvPlan.NodeAllocation[n]) > Capacity[n]

(***************************************************************************)
(* C3: evaluation is serialized against commit: at most one plan is        *)
(* between its dequeue and its reply, and the snapshot a plan is evaluated *)
(* against holds the allocations left by every request the loop committed  *)
(* before that evaluation.                                                 *)
(***************************************************************************)
InFlight == Range(deqOrder) \ Range(replyOrder)

RECURSIVE ReplayAllocs(_, _)
ReplayAllocs(store, log) ==
    IF log = << >> THEN store.allocs
    ELSE ReplayAllocs(FsmApply(store, Head(log), 0), Tail(log))

C3_Serialized ==
    /\ Cardinality(InFlight) <= 1
    /\ pending # Nil => InFlight = {Deref(pending).id}
    /\ pending = Nil => InFlight = {}
    /\ ev # Nil =>
         EvSnap.allocs = ReplayAllocs(initFsm, SubSeq(appliedLog, 1, Deref(ev).applied))

\* a second plan is in flight, and the snapshot it was evaluated against
\* shows what the first plan committed
C3_Witness ==
    /\ pc = "applying"
    /\ Deref(pending).id = 2
    /\ Deref(ev).applied = 1
    /\ EvSnap.allocs # initFsm.allocs
    /\ appliedLog # << >>

(***************************************************************************)
(* C4: every pending plan planApply dequeued is responded to exactly once  *)
(* before the next Dequeue, on every path; no pending plan is ever         *)
(* responded to twice, also when the queue is closed or flushed meanwhile. *)
(***************************************************************************)
C4_ExactlyOnceReply ==
    /\ \A id \in PlanIDs : Len(replies[id]) <= 1
    /\ \A i \in 1..Len(deqOrder) :
         Len(replies[deqOrder[i]]) =
            IF i = Len(deqOrder) /\ pc \in {"evaluating", "applying"} THEN 0 ELSE 1

\* the loop has stopped after two plans went through it, one answered with
\* a result and one with an error, the queue having been closed meanwhile
C4_Witness ==
    /\ pc = "stopped"
    /\ Len(deqOrder) = 2
    /\ \E i, j \in Range(deqOrder) :
         /\ replies[i][1].err = NoErr
         /\ replies[j][1].err \notin {NoErr, "QueueClosed"}

(***************************************************************************)
(* C5: plans are dequeued, evaluated, submitted to raftApply and replied   *)
(* to in the order in which they entered the queue (a plan's id is its     *)
(* rank of entry).                                                         *)
(***************************************************************************)
Increasing(seq) == \A i, j \in 1..Len(seq) : i < j => seq[i] < seq[j]
IsPrefix(a, b) == Len(a) <= Len(b) /\ SubSeq(b, 1, Len(a)) = a

C5_FIFO ==
    /\ Increasing(deqOrder)
    /\ IsPrefix(evalOrder, deqOrder) /\ Len(deqOrder) - Len(evalOrder) <= 1
    /\ IsPrefix(replyOrder, evalOrder) /\ Len(evalOrder) - Len(replyOrder) <= 1
    /\ Increasing(applyOrder) /\ Range(applyOrder) \subseteq Range(evalOrder)

\* two plans went through evaluation, raftApply and reply, in order
C5_Witness ==
    /\ evalOrder = <<1, 2>>
    /\ applyOrder = <<1, 2>>
    /\ replyOrder = <<1, 2>>

(***************************************************************************)
(* C6: of two plans applied successfully, the later one is replied a       *)
(* strictly greater AllocIndex.                                            *)
(***************************************************************************)
AppliedOk(id) ==
    /\ id \in Range(applyOrder)
    /\ replies[id] # << >>
    /\ replies[id][1].err = NoErr

C6_MonotoneAllocIndex ==
    \A i, j \in 1..Len(replyOrder) :
        (i < j /\ AppliedOk(replyOrder[i]) /\ AppliedOk(replyOrder[j])) =>
            Deref(replies[replyOrder[i]][1].result).AllocIndex
                < Deref(replies[replyOrder[j]][1].result).AllocIndex

\* two plans were applied, with a write of another client in between
C6_Witness ==
    /\ AppliedOk(1) /\ AppliedOk(2)
    /\ Deref(replies[2][1].result).AllocIndex
         = Deref(replies[1][1].result).AllocIndex + 2

(***************************************************************************)
(* C7: per-node atomicity: every node that appears in the result of        *)
(* evaluatePlan carries the plan's placements for that node in full and    *)
(* the plan's evictions for that node in full (a map without an entry for  *)
(* the node reads as the empty list).                                      *)
(***************************************************************************)
C7_PerNodeAtomicity ==
    EvOk =>
        \A n \in (DOMAIN EvRes.NodeAllocation) \cup (DOMAIN EvRes.NodeEvict) :
            /\ MapGet(EvRes.NodeAllocation, n) = MapGet(EvPlan.NodeAllocation, n)
            /\ MapGet(EvRes.NodeEvict, n) = MapGet(EvPlan.NodeEvict, n)

\* one node accepted with two placements and an eviction, the other rejected
C7_Witness ==
    /\ EvOk
    /\ \E n \in DOMAIN EvRes.NodeAllocation :
         /\ Len(EvRes.NodeAllocation[n]) = 2
         /\ n \in DOMAIN EvRes.NodeEvict
    /\ \E n \in EvKeys : n \notin DOMAIN EvRes.NodeAllocation /\ EvPlan.NodeAllocation[n] # << >>

(***************************************************************************)
(* C8 as stated: for every node of plan.NodeAllocation the list handed to  *)
(* the fit predicate is the node's existing allocations minus those whose  *)
(* ID is in the plan's evictions for the node, followed by the plan's      *)
(* placements for the node; a node whose placements fit only once its own  *)
(* evictions are removed is accepted, with its evictions and its           *)
(* placements both recorded, and RefreshIndex is left at 0.                *)
(***************************************************************************)
ExpectedProposed(plan, snap, n) ==
    SelectSeq(AllocsByNode(snap, n),
              LAMBDA a : a.ID \notin Range(MapGet(plan.NodeEvict, n)))
        \o plan.NodeAllocation[n]

\* every call of the fit predicate got the list the claim describes
EvCallsAsExpected ==
    \A i \in 1..Len(Deref(ev).out.calls) :
        Deref(ev).out.calls[i].proposed =
            ExpectedProposed(EvPlan, EvSnap, Deref(ev).out.calls[i].node.ID)

\* node n is in the result with the plan's evictions and placements for it
EvRecorded(n) ==
    /\ n \in DOMAIN EvRes.NodeEvict
    /\ n \in DOMAIN EvRes.NodeAllocation
    /\ EvRes.NodeEvict[n] = EvPlan.NodeEvict[n]
    /\ EvRes.NodeAllocation[n] = EvPlan.NodeAllocation[n]

C8_EvictionPrecedesPlacement_Original ==
    EvOk =>
        /\ EvCallsAsExpected
        /\ \A n \in EvKeys :
             FitsOnlyAfterEvict(EvPlan, EvSnap, n) =>
                 /\ EvRecorded(n)
                 /\ EvRes.RefreshIndex = 0

(***************************************************************************)
(* C8: for every node of plan.NodeAllocation that the range reaches, the   *)
(* list handed to the fit predicate is the node's existing allocations     *)
(* minus those whose ID is in the plan's evictions for the node, followed  *)
(* by the plan's placements for the node.  A node whose placements fit     *)
(* only once its own evictions are removed is accepted, with its evictions *)
(* and its placements both recorded, when the plan is not all-at-once or   *)
(* every node of the plan fits, and RefreshIndex is left at 0 when every   *)
(* node of the plan fits.                                                  *)
(***************************************************************************)
C8_EvictionPrecedesPlacement ==
    EvOk =>
        /\ EvCallsAsExpected
        /\ \A n \in EvKeys :
             EvVisited(n) =>
                 \E i \in 1..Len(Deref(ev).out.calls) : Deref(ev).out.calls[i].node.ID = n
        /\ \A n \in EvKeys :
             (FitsOnlyAfterEvict(EvPlan, EvSnap, n) /\ (~EvPlan.AllAtOnce \/ EvAllFit)) =>
                 EvRecorded(n)
        /\ ((\E n \in EvKeys : FitsOnlyAfterEvict(EvPlan, EvSnap, n)) /\ EvAllFit)
               => EvRes.RefreshIndex = 0

\* an all-at-once plan for two nodes, all of it accepted: one node fits only
\* because the plan evicts what is there, and the result has its eviction
\* and its placements, those of the other node, and RefreshIndex 0
C8_Witness ==
    /\ EvOk /\ EvPlan.AllAtOnce
    /\ EvKeys = Nodes
    /\ EvAllFit
    /\ \E n \in EvKeys :
         /\ FitsOnlyAfterEvict(EvPlan, EvSnap, n)
         /\ EvRecorded(n)
         /\ \A m \in EvKeys \ {n} : m \in DOMAIN EvRes.NodeAllocation
    /\ EvRes.RefreshIndex = 0

(***************************************************************************)
(* C9, as stated: when every node of the plan passes the fit predicate,    *)
(* the result's NodeAllocation and NodeEvict are the plan's, and           *)
(* RefreshIndex is 0.                                                      *)
(***************************************************************************)
C9_RoundTrip_Original ==
    (EvOk /\ EvAllFit) =>
        /\ EvRes.NodeAllocation = EvPlan.NodeAllocation
        /\ EvRes.NodeEvict = EvPlan.NodeEvict
        /\ EvRes.RefreshIndex = 0

(***************************************************************************)
(* C9, amended: when every node of plan.NodeAllocation passes the fit      *)
(* predicate, the result holds, for every node, the plan's placements      *)
(* (with no entry where the plan's list is empty), the plan's evictions    *)
(* for the nodes that are keys of plan.NodeAllocation and no eviction for  *)
(* any other node, and RefreshIndex is 0.                                  *)
(***************************************************************************)
C9_RoundTrip ==
    (EvOk /\ EvAllFit) =>
        /\ \A n \in Nodes :
             /\ MapGet(EvRes.NodeAllocation, n) = MapGet(EvPlan.NodeAllocation, n)
             /\ n \in DOMAIN EvRes.NodeAllocation <=>
                    (n \in EvKeys /\ EvPlan.NodeAllocation[n] # << >>)
             /\ n \in EvKeys =>
                    /\ MapGet(EvRes.NodeEvict, n) = MapGet(EvPlan.NodeEvict, n)
                    /\ n \in DOMAIN EvRes.NodeEvict <=> n \in DOMAIN EvPlan.NodeEvict
             /\ n \notin EvKeys => n \notin DOMAIN EvRes.NodeEvict
        /\ EvRes.RefreshIndex = 0

\* every node fits; one node has placements and evictions, one has an empty
\* placement list, and the result keeps the first and has nothing for the other
C9_Witness ==
    /\ EvOk /\ EvAllFit
    /\ EvKeys = Nodes
    /\ \E n \in Nodes : n \in DOMAIN EvRes.NodeEvict /\ n \in DOMAIN EvRes.NodeAllocation
    /\ \E n \in Nodes : EvPlan.NodeAllocation[n] = << >> /\ n \notin DOMAIN EvRes.NodeAllocation

(***************************************************************************)
(* C10: after a successful evaluation RefreshIndex is 0 if every node of   *)
(* the plan was accepted, and otherwise the maximum of the snapshot's      *)
(* indices of the tables "nodes" and "allocs".                             *)
(***************************************************************************)
C10_RefreshIndexValue ==
    EvOk =>
        EvRes.RefreshIndex =
            IF EvAllFit THEN 0
            ELSE maxUint64(EvSnap.index["nodes"], EvSnap.index["allocs"])

\* no read of the last call of evaluatePlan failed: the snapshot was taken,
\* every node of the plan is in it and no lookup was made to fail
EvReadsOk ==
    /\ ev # Nil
    /\ Deref(ev).fail = "none"
    /\ EvKeys \subseteq EvSnap.nodes

(***************************************************************************)
(* C11: infeasibility is not an error: whenever at least one node of the   *)
(* plan fails the fit predicate and no read of the snapshot fails,         *)
(* evaluatePlan returns a nil error and a RefreshIndex strictly above 0.   *)
(***************************************************************************)
C11_InfeasibleIsNoError ==
    (EvReadsOk /\ ~EvAllFit) =>
        /\ Deref(ev).out.err = NoErr
        /\ EvRes.RefreshIndex > 0

(***************************************************************************)
(* C12: an error of evaluatePlan or of applyPlan is fatal to the plan and  *)
(* not to the loop: the submitter of the plan receives (nil, err),         *)
(* planApply is back at Dequeue, and the loop stops only in a step where   *)
(* Dequeue fails on the closed queue.                                      *)
(***************************************************************************)
C12_ErrorStep ==
    /\ (evalOrder' # evalOrder /\ Deref(ev').out.err # NoErr) =>
            /\ replies' = [replies EXCEPT ![Deref(pending).id] =
                               Append(@, [result |-> Nil, err |-> Deref(ev').out.err])]
            /\ pc' = "idle"
            /\ pending' = Nil
    /\ (applyOrder' # applyOrder /\ appliedLog' = appliedLog) =>
            /\ replies' = [replies EXCEPT ![Deref(pending).id] =
                               Append(@, [result |-> Nil, err |-> "ConsensusFailed"])]
            /\ pc' = "idle"
            /\ pending' = Nil
    /\ (pc' = "stopped" /\ pc # "stopped") =>
            /\ pc = "idle"
            /\ closed
            /\ queue = << >>

C12_ErrorsAreNotFatalToLoop == [][C12_ErrorStep]_vars

\* the first plan got an error from planApply, and the plan after it was
\* evaluated, committed and answered with its result
C12_Witness ==
    /\ replyOrder = <<1, 2>>
    /\ replies[1] # << >> /\ replies[1][1].err \in {"ConsensusFailed", "AllocLookupFailed",
                                                     "SnapshotFailed", "IndexLookupFailed"}
    /\ replies[2] # << >> /\ replies[2][1].err = NoErr
    /\ Deref(replies[2][1].result).AllocIndex > 0

(***************************************************************************)
(* C13: when evaluatePlan returns a result of which NodeEvict and          *)
(* NodeAllocation are both empty, planApply makes no raftApply call,       *)
(* leaves the replicated state and the log index as they are, and replies  *)
(* (result, nil) with AllocIndex = 0; raftApply is called only on a        *)
(* non-empty result, and at most once for a plan.                          *)
(***************************************************************************)
C13_SkipStep ==
    /\ (/\ evalOrder' # evalOrder
        /\ Deref(ev').out.err = NoErr
        /\ Deref(Deref(ev').out.result).NodeEvict = EmptyMap
        /\ Deref(Deref(ev').out.result).NodeAllocation = EmptyMap) =>
            /\ applyOrder' = applyOrder
            /\ appliedLog' = appliedLog
            /\ fsm' = fsm
            /\ raftIndex' = raftIndex
            /\ replies' = [replies EXCEPT ![Deref(pending).id] =
                               Append(@, [result |-> Deref(ev').out.result, err |-> NoErr])]
            /\ Deref(Deref(ev').out.result).AllocIndex = 0
    /\ applyOrder' # applyOrder =>
            /\ applyOrder' = Append(applyOrder, Deref(pending).id)
            /\ Deref(pending).id \notin Range(applyOrder)
            /\ result # Nil
            /\ \/ Deref(result).NodeEvict # EmptyMap
               \/ Deref(result).NodeAllocation # EmptyMap
            /\ Len(appliedLog') <= Len(appliedLog) + 1

C13_EmptyResultSkipsApply == [][C13_SkipStep]_vars

\* after a plan that was committed, a plan of which nothing was accepted got
\* its empty result back, with no second call of raftApply
C13_Witness ==
    /\ applyOrder = <<1>> /\ Len(appliedLog) = 1
    /\ replyOrder = <<1, 2>>
    /\ replies[2][1].err = NoErr
    /\ Deref(replies[2][1].result).NodeEvict = EmptyMap
    /\ Deref(replies[2][1].result).NodeAllocation = EmptyMap
    /\ Deref(replies[2][1].result).AllocIndex = 0
    /\ raftIndex = Deref(replies[1][1].result).AllocIndex

(***************************************************************************)
(* The loop under fair scheduling: the goroutine of planApply is scheduled *)
(* whenever it can take a step, Dequeue returns when a plan is pending or  *)
(* the queue is closed, and the snapshot and raftApply return.             *)
(***************************************************************************)
SpecFair ==
    /\ Spec
    /\ WF_vars(Dequeue)
    /\ WF_vars(DequeueClosed)
    /\ WF_vars(EvalError \/ EvalEmpty \/ EvalAccept)
    /\ WF_vars(ApplyOk \/ ApplyFail)

(***************************************************************************)
(* C14: under fair scheduling, every plan admitted by Enqueue eventually   *)
(* has its reply completed, by planApply or with QueueClosed when the      *)
(* queue is closed or flushed, a plan that was already dequeued when the   *)
(* queue closed included.                                                  *)
(***************************************************************************)
C14_EventualReply ==
    \A id \in PlanIDs : (enqueued >= id) ~> (replies[id] # << >>)

\* the queue closed while plan 1 was between its dequeue and its reply: the
\* plan behind it got QueueClosed from the queue, plan 1 is still to be
\* answered by planApply
C14_Witness ==
    /\ closed
    /\ pc = "applying" /\ Deref(pending).id = 1
    /\ enqueued = 2
    /\ replies[1] = << >>
    /\ replies[2] # << >> /\ replies[2][1].err = "QueueClosed"

(***************************************************************************)
(* The same plan submitted twice: planApply evaluates it, the replicated   *)
(* state moves on, and planApply evaluates it again.                       *)
(***************************************************************************)
InitReeval ==
    /\ fsm \in Stores
    /\ initFsm = fsm
    /\ raftIndex = maxUint64(fsm.index["nodes"], fsm.index["allocs"])
    /\ nodeUpdates = 0
    /\ \E plan \in LoopPlans :
         /\ pending = Ptr([id |-> 1, plan |-> plan])
         /\ queue = <<[id |-> 2, plan |-> plan]>>
    /\ closed = FALSE
    /\ enqueued = 2
    /\ pc = "evaluating"
    /\ result = Nil
    /\ replies = [id \in PlanIDs |-> << >>]
    /\ ev = Nil
    /\ deqOrder = <<1>>
    /\ evalOrder = << >>
    /\ applyOrder = << >>
    /\ replyOrder = << >>
    /\ appliedLog = << >>

\* another raft client writes the "allocs" table between the two evaluations,
\* while planApply waits on Dequeue (a client updating its allocations, an
\* eviction): the table index moves to the index of the write
AllocUpdate ==
    /\ pc = "idle"
    /\ queue # << >>
    /\ raftIndex <= MaxIndex
    /\ \E s \in Stores :
         /\ s.nodes = fsm.nodes
         /\ s.allocs # fsm.allocs
         /\ fsm' = [fsm EXCEPT !.allocs = s.allocs,
                               !.index = [@ EXCEPT !["allocs"] = raftIndex + 1]]
    /\ raftIndex' = raftIndex + 1
    /\ UNCHANGED <<nodeUpdates, queue, closed, enqueued, replies, loopVars, histVars>>

NextReeval ==
    \/ AllocUpdate
    \/ NodeUpdate
    \/ Dequeue
    \/ EvalError
    \/ EvalEmpty
    \/ EvalAccept
    \/ ApplyOk
    \/ ApplyFail

SpecReeval == InitReeval /\ [][NextReeval]_vars

\* planApply answered plan id with a result
HasResult(id) ==
    /\ id \in Range(replyOrder)
    /\ replies[id][1].result # Nil
RefreshIndexReplied(id) == Deref(replies[id][1].result).RefreshIndex

(***************************************************************************)
(* C15 as stated: for one plan evaluated against a snapshot and then       *)
(* against a later snapshot of which no table index is lower, the second   *)
(* RefreshIndex is at least the first.                                     *)
(***************************************************************************)
C15_RefreshIndexMonotone_Original ==
    (HasResult(1) /\ HasResult(2)) =>
        RefreshIndexReplied(2) >= RefreshIndexReplied(1)

(***************************************************************************)
(* C15: for one plan evaluated against a snapshot and then against a later *)
(* snapshot of which no table index is lower, the second RefreshIndex is   *)
(* at least the first, unless every node of the plan fits in the later     *)
(* snapshot, in which case it is 0.                                        *)
(***************************************************************************)
C15_RefreshIndexMonotone ==
    (HasResult(1) /\ HasResult(2)) =>
        \/ RefreshIndexReplied(2) >= RefreshIndexReplied(1)
        \/ RefreshIndexReplied(2) = 0 /\ EvAllFit

\* the plan failed the fit twice, the "allocs" table was written in between,
\* and the second RefreshIndex is strictly above the first
C15_Witness ==
    /\ HasResult(1) /\ HasResult(2)
    /\ ~EvAllFit
    /\ RefreshIndexReplied(1) > 0
    /\ RefreshIndexReplied(2) > RefreshIndexReplied(1)

(***************************************************************************)
(* C16: once Dequeue has failed the loop is over: planApply evaluates no   *)
(* plan, makes no raftApply call and writes no reply from then on, and it  *)
(* stops only from the point where it waits on Dequeue.                    *)
(***************************************************************************)
C16_StoppedStep ==
    /\ pc = "stopped" =>
            /\ pc' = "stopped"
            /\ UNCHANGED <<pending, result, ev, evalOrder, applyOrder, appliedLog,
                           replyOrder, replies, deqOrder>>
    /\ (pc' = "stopped" /\ pc # "stopped") =>
            /\ pc = "idle"
            /\ pending = Nil /\ result = Nil
            /\ UNCHANGED <<replies, fsm, raftIndex>>

C16_CloseIsTerminal == [][C16_StoppedStep]_vars

\* planApply answered a plan, the queue was closed with another plan pending
\* and the loop stopped; the last write of the log is another client's, to the
\* "nodes" table
C16_Witness ==
    /\ pc = "stopped"
    /\ replyOrder = <<1>>
    /\ replies[2] # << >> /\ replies[2][1].err = "QueueClosed"
    /\ nodeUpdates = 1
    /\ fsm.index["nodes"] = raftIndex

\* the first i-1 nodes of the visiting order let the range go on to the i-th:
\* none made an all-at-once plan return
EvReached(i) ==
    LET order == Deref(ev).order
    IN EvPlan.AllAtOnce => \A j \in 1..(i - 1) : NodeFits(EvPlan, EvSnap, order[j])

\* a read of the last call of evaluatePlan failed: the snapshot, or for a
\* node that the range reached the node lookup (the node is not in the
\* snapshot), the lookup of its allocations, or the index lookup that
\* follows a failed fit
EvReadFailed ==
    LET order == Deref(ev).order
        fail == Deref(ev).fail
    IN \/ fail = "Snapshot"
       \/ \E i \in 1..Len(order) :
            /\ EvReached(i)
            /\ \/ order[i] \notin EvSnap.nodes
               \/ fail = "AllocsByNode"
               \/ fail = "GetIndex" /\ ~NodeFits(EvPlan, EvSnap, order[i])

\* planApply committed nothing and answered the plan with (nil, err)
EvErrorReplied ==
    /\ Deref(ev).out.err # NoErr
    /\ Deref(ev).out.result = Nil
    /\ pc = "idle"
    /\ applyOrder = << >> /\ appliedLog = << >>
    /\ fsm = initFsm
    /\ raftIndex = maxUint64(initFsm.index["nodes"], initFsm.index["allocs"])
    /\ replies[1] = <<[result |-> Nil, err |-> Deref(ev).out.err]>>

(***************************************************************************)
(* C17 as stated: if a read of the snapshot fails for any node of the      *)
(* plan, evaluatePlan returns an error and no result, planApply commits    *)
(* nothing and the submitter receives the error; in particular a plan that *)
(* targets a node absent from the snapshot is answered with an error.      *)
(***************************************************************************)
C17_ReadFailureAborts_Original ==
    ev # Nil =>
        /\ EvReadFailed => EvErrorReplied
        /\ (\E n \in EvKeys : n \notin EvSnap.nodes) => EvErrorReplied

(***************************************************************************)
(* C17: if a read of the snapshot fails for any node of the plan,          *)
(* evaluatePlan returns an error and no result, whatever nodes it accepted *)
(* before, planApply commits nothing and the submitter receives the error; *)
(* a plan that targets a node absent from the snapshot is answered with an *)
(* error if the range reaches that node, that is unless the plan is        *)
(* all-at-once and a node visited before it fails the fit.                 *)
(***************************************************************************)
C17_ReadFailureAborts ==
    ev # Nil =>
        /\ EvReadFailed => EvErrorReplied
        /\ \A i \in 1..Len(Deref(ev).order) :
             (EvReached(i) /\ Deref(ev).order[i] \notin EvSnap.nodes) => EvErrorReplied
        /\ Deref(ev).out.err # NoErr => EvReadFailed

\* the first node visited was accepted with its placements, the second is not
\* in the snapshot, and the plan was answered with the error of the lookup
C17_Witness ==
    /\ ev # Nil
    /\ Len(Deref(ev).order) = 2
    /\ Deref(ev).order[1] \in EvSnap.nodes
    /\ NodeFits(EvPlan, EvSnap, Deref(ev).order[1])
    /\ EvPlan.NodeAllocation[Deref(ev).order[1]] # << >>
    /\ Deref(ev).order[2] \notin EvSnap.nodes
    /\ Deref(ev).fail = "none"
    /\ EvErrorReplied
    /\ replies[1][1].err = "NodeLookupFailed"

(***************************************************************************)
(* One iteration of planApply on any plan: evaluatePlan against a snapshot *)
(* of any state store, then applyPlan when something was accepted.         *)
(***************************************************************************)
NextIteration == EvalError \/ EvalEmpty \/ EvalAccept \/ ApplyOk \/ ApplyFail

SpecIteration == InitEval /\ [][NextIteration]_vars

\* the number of places of seq that hold x
Count(seq, x) == Cardinality({i \in 1..Len(seq) : seq[i] = x})

\* the number of times x occurs in the lists of map m
RECURSIVE CountIn(_, _, _)
CountIn(m, keys, x) ==
    IF keys = {} THEN 0
    ELSE LET k == CHOOSE k \in keys : TRUE
         IN Count(m[k], x) + CountIn(m, keys \ {k}, x)

\* list is a run of consecutive elements of seq
IsBlockOf(list, seq) ==
    \E off \in 0..(Len(seq) - Len(list)) :
        \A i \in 1..Len(list) : seq[off + i] = list[i]

\* the request req holds the lists of map m: every element as many times as
\* the lists have it, and every list in one piece and in its order
HoldsExactly(req, m) ==
    /\ \A x \in Range(req) : Count(req, x) = CountIn(m, DOMAIN m, x)
    /\ \A k \in DOMAIN m :
         /\ IsBlockOf(m[k], req)
         /\ \A i \in 1..Len(m[k]) : m[k][i] \in Range(req)

(***************************************************************************)
(* C18: the request passed to raftApply holds in Evict exactly the IDs of  *)
(* the lists of result.NodeEvict and in Alloc exactly the allocations of   *)
(* the lists of result.NodeAllocation: each occurrence once, the order     *)
(* inside each node's list kept, and nothing of a node that was rejected.  *)
(***************************************************************************)
C18_PayloadIsResult ==
    (EvOk /\ appliedLog # << >>) =>
        /\ Len(appliedLog) = 1
        /\ HoldsExactly(appliedLog[1].Evict, EvRes.NodeEvict)
        /\ HoldsExactly(appliedLog[1].Alloc, EvRes.NodeAllocation)
        /\ \A n \in EvKeys :
             ~NodeFits(EvPlan, EvSnap, n) =>
                 \A i \in 1..Len(appliedLog[1].Alloc) : appliedLog[1].Alloc[i].NodeID # n

\* both nodes were accepted, each with an eviction and one with two
\* placements, and the request was committed
C18_Witness ==
    /\ EvOk /\ Len(appliedLog) = 1
    /\ DOMAIN EvRes.NodeEvict = Nodes
    /\ DOMAIN EvRes.NodeAllocation = Nodes
    /\ \E n \in Nodes : Len(EvRes.NodeAllocation[n]) = 2
    /\ Len(appliedLog[1].Evict) = 2
    /\ Len(appliedLog[1].Alloc) = 3

\* the nodes of which the evictions may be recorded: keys of
\* plan.NodeAllocation that pass the fit predicate
EvAccepted == {n \in EvKeys : NodeFits(EvPlan, EvSnap, n)}

(***************************************************************************)
(* C19: a node has an entry in result.NodeEvict only if it is a key of     *)
(* plan.NodeAllocation and passed the fit predicate; the evictions of a    *)
(* node that is only in plan.NodeEvict, and those of a node that failed    *)
(* the fit, are neither in the result nor in the committed request.        *)
(***************************************************************************)
C19_EvictionsFollowPlacements ==
    EvOk =>
        /\ \A n \in DOMAIN EvRes.NodeEvict :
             /\ n \in EvKeys
             /\ NodeFits(EvPlan, EvSnap, n)
             /\ EvRes.NodeEvict[n] = EvPlan.NodeEvict[n]
        /\ appliedLog # << >> =>
             \A x \in AllocIDs :
                 Count(appliedLog[1].Evict, x) <=
                     CountIn(EvPlan.NodeEvict, EvAccepted \cap DOMAIN EvPlan.NodeEvict, x)

\* one node was accepted with its eviction, the other failed the fit with an
\* eviction of its own, and the committed request evicts only the first
C19_Witness ==
    /\ EvOk /\ Len(appliedLog) = 1
    /\ DOMAIN EvPlan.NodeEvict = Nodes
    /\ \E n, m \in EvKeys :
         /\ NodeFits(EvPlan, EvSnap, n)
         /\ ~NodeFits(EvPlan, EvSnap, m)
         /\ EvPlan.NodeEvict[n] # EvPlan.NodeEvict[m]
         /\ appliedLog[1].Evict = EvPlan.NodeEvict[n]

\* the keys of plan.NodeAllocation that have an empty placement list
EvEmptyKeys == {n \in EvKeys : EvPlan.NodeAllocation[n] = << >>}

\* every fit test made for node n passed
EvFitPassed(n) ==
    \A i \in 1..Len(Deref(ev).out.calls) :
        Deref(ev).out.calls[i].node.ID = n =>
            AllocationsFit(Deref(ev).out.calls[i].node, Deref(ev).out.calls[i].proposed)

\* node n leaves the rest of the plan alone: if the other nodes fit then
\* RefreshIndex is 0 and their placements are all in the result
EvLeavesOthersAlone(n) ==
    (\A m \in EvKeys \ {n} : NodeFits(EvPlan, EvSnap, m)) =>
        /\ EvRes.RefreshIndex = 0
        /\ \A m \in EvKeys \ EvEmptyKeys :
             /\ m \in DOMAIN EvRes.NodeAllocation
             /\ EvRes.NodeAllocation[m] = EvPlan.NodeAllocation[m]

(***************************************************************************)
(* C20 as stated: in every snapshot a key of plan.NodeAllocation with an   *)
(* empty list is treated as fitting, adds no entry to                      *)
(* result.NodeAllocation nor to result.NodeEvict, does not set             *)
(* RefreshIndex and does not make an all-at-once plan be rejected.         *)
(***************************************************************************)
C20_EmptyListIsNoOp_Original ==
    EvOk =>
        \A n \in EvEmptyKeys :
            /\ EvFitPassed(n)
            /\ n \notin DOMAIN EvRes.NodeAllocation
            /\ n \notin DOMAIN EvRes.NodeEvict
            /\ EvLeavesOthersAlone(n)

(***************************************************************************)
(* C20: a key n of plan.NodeAllocation with an empty list adds no entry to *)
(* result.NodeAllocation, and an entry of result.NodeEvict for n is the    *)
(* list the plan evicts from n.  In a snapshot where the allocations of n, *)
(* those the plan evicts from n left out, fit the node, n is treated as    *)
(* fitting, does not set RefreshIndex, does not make an all-at-once plan   *)
(* be rejected, and has the plan's evictions for n recorded when the plan  *)
(* is not all-at-once or every node of it fits.  In a snapshot where they  *)
(* do not fit, n fails the fit like any other node once the range reaches  *)
(* it: RefreshIndex is set and nothing is recorded for n.                  *)
(***************************************************************************)
C20_EmptyListIsNoOp ==
    EvOk =>
        \A n \in EvEmptyKeys :
            /\ n \notin DOMAIN EvRes.NodeAllocation
            /\ n \in DOMAIN EvRes.NodeEvict =>
                 /\ n \in DOMAIN EvPlan.NodeEvict
                 /\ EvRes.NodeEvict[n] = EvPlan.NodeEvict[n]
                 /\ NodeFits(EvPlan, EvSnap, n)
            /\ NodeFits(EvPlan, EvSnap, n) =>
                 /\ EvFitPassed(n)
                 /\ EvLeavesOthersAlone(n)
                 /\ (n \in DOMAIN EvPlan.NodeEvict /\ (~EvPlan.AllAtOnce \/ EvAllFit)) =>
                      n \in DOMAIN EvRes.NodeEvict
            /\ (~NodeFits(EvPlan, EvSnap, n) /\ EvVisited(n)) =>
                 /\ ~EvFitPassed(n)
                 /\ EvRes.RefreshIndex > 0
                 /\ n \notin DOMAIN EvRes.NodeEvict

\* an all-at-once plan with an empty placement list on a node that holds
\* more than its capacity and an eviction that makes it fit, and placements
\* on the other node: all is accepted, the result has the eviction of the
\* first node and no placement entry for it
C20_Witness ==
    /\ EvOk /\ EvPlan.AllAtOnce
    /\ \E n \in EvEmptyKeys, m \in EvKeys \ EvEmptyKeys :
         /\ n \in DOMAIN EvPlan.NodeEvict
         /\ ExistingDemand(EvSnap, n, {}) > Capacity[n]
         /\ EvRes.NodeEvict = [k \in {n} |-> EvPlan.NodeEvict[n]]
         /\ DOMAIN EvRes.NodeAllocation = {m}
         /\ EvRes.RefreshIndex = 0

====
